---- MODULE Spec2Model ----
(***************************************************************************)
(* The N-API boundary layer of confsec-js (src/native/src/confsec.cc):     *)
(* fifteen synchronous wrappers around the libconfsec engine.  The engine  *)
(* is an opaque collaborator; its resource table and its answers are       *)
(* modelled from the boundary contract, the wrappers from their code.      *)
(*                                                                         *)
(* Numbers.  A uintptr_t and an integer-valued double are both written as  *)
(* the set of the positions of their one-bits ({} is 0, {0} is 1, {53} is  *)
(* 2^53, 0..63 is 2^64-1, {64} is the double 2^64), so that the 64-bit     *)
(* width and the 53-bit significand keep their real sizes.                 *)
(*                                                                         *)
(* Text.  A JavaScript string is a sequence of code points, a C string a   *)
(* sequence of bytes closed by a zero byte.                                *)
(***************************************************************************)
EXTENDS Integers, Sequences, FiniteSets

VARIABLES table, dead, last, ubCast, data

vars == <<table, dead, last, ubCast, data>>

-----------------------------------------------------------------------------
(* Bounds of the model *)

MaxStrLen == 1
MaxLen == 2
MaxTags == 2
MaxChunks == 2
MaxResources == 3

-----------------------------------------------------------------------------
(* Widths *)

WordBits == 64
MantissaBits == 53

Zero == {}

\* static_cast<double>(handle): round to nearest, ties to even, on 53 bits
Top(v) == CHOOSE i \in v : \A j \in v : j <= i

AddBit(s, p) ==
    LET q == CHOOSE k \in p..WordBits :
                 k \notin s /\ \A j \in p..(k - 1) : j \in s
    IN (s \ (p..(q - 1))) \cup {q}

ToDouble(v) ==
    IF v = Zero THEN Zero
    ELSE LET lsb == Top(v) - (MantissaBits - 1)
         IN IF lsb <= 0 THEN v
            ELSE LET kept == {i \in v : i >= lsb}
                     half == (lsb - 1) \in v
                     sticky == \E i \in v : i < lsb - 1
                     odd == lsb \in v
                 IN IF half /\ (sticky \/ odd) THEN AddBit(kept, lsb) ELSE kept

\* static_cast<uintptr_t>(number.DoubleValue()) of a non-negative integral
\* double: exact below 2^64, undefined at 2^64 (what the build makes of it)
FromDouble(d) == IF WordBits \in d THEN ubCast ELSE d

\* what a build makes of the out-of-range cast: 0 (x86-64) or 2^64-1 (saturating)
UBCastOutcomes == {Zero, 0..(WordBits - 1)}

-----------------------------------------------------------------------------
(* Text and bytes *)

Chars == {0, 97, 233}
\* the strings tags are drawn from: "", "a" and "a\0a"
TagStrings == {<<>>, <<97>>, <<97, 0, 97>>}
Bytes == {0, 97}

JSStrings == UNION {[1..n -> Chars] : n \in 0..MaxStrLen}
ByteSeqs == UNION {[1..n -> Bytes] : n \in 0..MaxLen}
TagLists == UNION {[1..n -> TagStrings] : n \in 0..MaxTags}

\* what a run draws its strings, tag arrays and byte payloads from: every
\* value within the bounds ("full"), or one plain value of each ("plain")
Texts == IF data = "full" THEN JSStrings ELSE {<<97>>}
Payloads == IF data = "full" THEN ByteSeqs ELSE {<<97>>}
TagArrays == IF data = "full" THEN TagLists ELSE {<<>>, << <<97>> >>}

\* Napi::String::Utf8Value(): the UTF-8 encoding of the string
Utf8Char(c) == IF c < 128 THEN <<c>> ELSE <<192 + (c \div 64), 128 + (c % 64)>>

RECURSIVE Utf8Value(_)
Utf8Value(s) == IF s = <<>> THEN <<>> ELSE Utf8Char(Head(s)) \o Utf8Value(Tail(s))

\* std::string::c_str() / a buffer the engine hands over: the bytes and a closing zero
CStr(bytes) == bytes \o <<0>>

\* strlen: the number of bytes before the first zero byte
StrLen(mem) ==
    CHOOSE n \in 0..(Len(mem) - 1) :
        mem[n + 1] = 0 /\ \A i \in 1..n : mem[i] # 0

\* strcpy(cstr, str.c_str()): the bytes up to the first zero byte, and that zero
StrCpy(mem) == SubSeq(mem, 1, StrLen(mem) + 1)

\* Napi::Buffer<char>::Copy(env, p, strlen(p))
BufferCopy(mem) == SubSeq(mem, 1, StrLen(mem))

\* Napi::String::New(env, const char*): decode the C string as UTF-8
RECURSIVE Utf8Decode(_)
Utf8Decode(b) ==
    IF b = <<>> THEN <<>>
    ELSE IF Head(b) < 128 THEN <<Head(b)>> \o Utf8Decode(Tail(b))
    ELSE IF Head(b) >= 192 /\ Head(b) < 224 /\ Len(b) >= 2 /\ b[2] >= 128 /\ b[2] < 192
         THEN <<(Head(b) - 192) * 64 + (b[2] - 128)>> \o Utf8Decode(Tail(Tail(b)))
    ELSE <<65533>> \o Utf8Decode(Tail(b))

StringNew(mem) == Utf8Decode(BufferCopy(mem))

\* JSArrayToCStringArray: one new char[length + 1] per element, filled by strcpy
JSArrayToCStringArray(jsArray) ==
    [i \in 1..Len(jsArray) |-> StrCpy(CStr(Utf8Value(jsArray[i])))]

-----------------------------------------------------------------------------
(* What a wrapper hands back to JavaScript *)

Throw(class, message) ==
    [kind |-> "throw", class |-> class, message |-> message, type |-> "undefined", value |-> <<>>]

Return(type, value) ==
    [kind |-> "return", class |-> "", message |-> "", type |-> type, value |-> value]

\* char* err: null, or the engine's message
NoErr == [isNull |-> TRUE, text |-> ""]
Err(text) == [isNull |-> FALSE, text |-> text]

\* a char* result: null, or the memory it points to
NullPtr == [isNull |-> TRUE, mem |-> <<>>]
Ptr(mem) == [isNull |-> FALSE, mem |-> mem]

\* the payload the engine put behind a pointer: the memory without its closing zero
Payload(ptr) == SubSeq(ptr.mem, 1, Len(ptr.mem) - 1)

\* HANDLE_ERROR: a non-null err is thrown as Napi::Error with string(err)
HandleErrorIgnored(err, otherwise) == otherwise

HandleError(err, otherwise) ==
    IF ~err.isNull THEN Throw("Error", err.text) ELSE otherwise

\* HANDLE_ERROR releases the message with free(err)
ErrReleased(err) ==
    IF err.isNull THEN {} ELSE {[buf |-> "err", by |-> <<"free">>]}

\* if (handle == 0) throw "Unexpected ..."; return Number(static_cast<double>(handle))
CheckHandleUnchecked(handle, message) == Return("number", ToDouble(handle))

CheckHandle(handle, message) ==
    IF handle = Zero THEN Throw("Error", message)
    ELSE Return("number", ToDouble(handle))

\* if (p == nullptr) <onNull>; Buffer::Copy(env, p, strlen(p)); Confsec_Free(p)
CopyPayload(ret, onNull) ==
    IF ret.isNull THEN onNull ELSE Return("buffer", BufferCopy(ret.mem))

PayloadReleased(err, ret) ==
    ErrReleased(err) \cup
    (IF err.isNull /\ ~ret.isNull
     THEN {[buf |-> "payload", by |-> <<"Confsec_Free">>]} ELSE {})

-----------------------------------------------------------------------------
(* The engine: its resource table and its answers *)

HandlePool == {{0}, {53}, {0, 53}, 0..(WordBits - 1)}

NoRes ==
    [kind |-> "none", live |-> FALSE, tags |-> <<>>,
     streaming |-> FALSE, taken |-> FALSE, produced |-> 0, ended |-> FALSE,
     delivered |-> 0]

InvalidHandle == "invalid handle"
ConfigurationError == "invalid configuration"
RequestError == "request failed"
StreamError == "stream failed"
NotBuffered == "response is streaming"
NotStreaming == "response is not streaming"

EngineValid(v, kind) ==
    v \in HandlePool /\ table[v].kind = kind /\ table[v].live

\* a < b as unsigned integers
Less(a, b) ==
    LET diff == (a \ b) \cup (b \ a)
    IN diff # {} /\ Top(diff) \in b

\* a handle above every handle issued so far (handles are never issued twice),
\* while the table has room
EngineFresh ==
    LET issued == {v \in HandlePool : table[v].kind # "none"}
    IN IF Cardinality(issued) < MaxResources
       THEN {v \in HandlePool : \A u \in issued : Less(u, v)}
       ELSE {}

\* the numbers a caller holds: the ones the layer can have handed out, and 0
CallerNumbers == {ToDouble(v) : v \in HandlePool} \cup {Zero}

-----------------------------------------------------------------------------
(* The record of the most recent boundary call *)

NoCall ==
    [op |-> "none", arg |-> Zero, passed |-> Zero, calls |-> 0,
     engErr |-> NoErr, engRet |-> <<>>, outcome |-> Return("undefined", <<>>),
     released |-> {}, argWasDead |-> FALSE, nullConverted |-> FALSE,
     jsTags |-> <<>>, reqBytes |-> <<>>, engSaw |-> <<>>, reqLive |-> TRUE]

\* calls are synchronous: a wrapper runs when the caller holds no pending outcome
Idle == last.op = "none"

\* the JavaScript caller takes the outcome of the call and goes on
CallerResumes ==
    /\ ~Idle
    /\ last' = NoCall
    /\ UNCHANGED <<table, dead, ubCast, data>>

\* the argument checks that precede every engine call
TypeError(op, message) ==
    /\ last' = [NoCall EXCEPT !.op = op, !.outcome = Throw("TypeError", message)]
    /\ UNCHANGED <<table, dead, ubCast, data>>

Called(op, d, handle, err, ret, out, rel) ==
    [NoCall EXCEPT !.op = op, !.arg = d, !.passed = handle, !.calls = 1,
                   !.engErr = err, !.engRet = ret, !.outcome = out,
                   !.released = rel, !.argWasDead = d \in dead]

Init ==
    /\ table = [v \in HandlePool |-> NoRes]
    /\ dead = {}
    /\ last = NoCall
    /\ ubCast \in UBCastOutcomes
    /\ data = "full"

InitPlain ==
    /\ table = [v \in HandlePool |-> NoRes]
    /\ dead = {}
    /\ last = NoCall
    /\ ubCast \in UBCastOutcomes
    /\ data = "plain"

-----------------------------------------------------------------------------
(* Client *)

ConfsecClientCreate ==
    /\ Idle
    /\ \E typed \in BOOLEAN, tags \in TagArrays :
        IF ~typed THEN TypeError("ClientCreate", "Expected 5 arguments")
        ELSE LET defaultNodeTags == JSArrayToCStringArray(tags)
             IN \E handle \in EngineFresh \cup {Zero}, failed \in BOOLEAN :
                  LET err == IF handle = Zero /\ failed THEN Err(ConfigurationError) ELSE NoErr
                      out == HandleError(err,
                                 CheckHandle(handle, "Unexpected error creating client"))
                  IN /\ table' = IF handle = Zero THEN table
                                 ELSE [table EXCEPT ![handle] =
                                         [NoRes EXCEPT !.kind = "client", !.live = TRUE,
                                              !.tags = [i \in 1..Len(defaultNodeTags) |->
                                                          BufferCopy(defaultNodeTags[i])]]]
                     /\ last' = [Called("ClientCreate", Zero, Zero, err, handle, out,
                                        ErrReleased(err)) EXCEPT !.argWasDead = FALSE]
                     /\ UNCHANGED <<dead, ubCast, data>>

\* the three destroy wrappers share one body
DestroyOutcomeLenient(err) == Return("undefined", <<>>)

DestroyOutcome(err) == HandleError(err, Return("undefined", <<>>))

Destroy(op, kind) ==
    /\ Idle
    /\ \E typed \in BOOLEAN, d \in CallerNumbers :
        IF ~typed THEN TypeError(op, "Expected handle as number")
        ELSE LET handle == FromDouble(d)
                 ok == EngineValid(handle, kind)
                 err == IF ok THEN NoErr ELSE Err(InvalidHandle)
                 out == DestroyOutcome(err)
             IN /\ table' = IF ok THEN [table EXCEPT ![handle] = [NoRes EXCEPT !.kind = kind]]
                               ELSE table
                /\ dead' = IF out.kind = "return" THEN dead \cup {d} ELSE dead
                /\ last' = Called(op, d, handle, err, <<>>, out, ErrReleased(err))
                /\ UNCHANGED <<ubCast, data>>

ConfsecClientDestroy == Destroy("ClientDestroy", "client")

\* the two integer getters: the engine's number, as a JavaScript number
IntGetter(op, values) ==
    /\ Idle
    /\ \E typed \in BOOLEAN, d \in CallerNumbers :
        IF ~typed THEN TypeError(op, "Expected handle as number")
        ELSE LET handle == FromDouble(d)
                 ok == EngineValid(handle, "client")
             IN \E n \in values :
                  LET err == IF ok THEN NoErr ELSE Err(InvalidHandle)
                      ret == IF ok THEN n ELSE 0
                      out == HandleError(err, Return("number", ret))
                  IN /\ last' = Called(op, d, handle, err, ret, out, ErrReleased(err))
                     /\ UNCHANGED <<table, dead, ubCast, data>>

ConfsecClientGetDefaultCreditAmountPerRequest ==
    IntGetter("ClientGetDefaultCreditAmountPerRequest", {1, 100})

ConfsecClientGetMaxCandidateNodes ==
    IntGetter("ClientGetMaxCandidateNodes", {5})

\* the array GetDefaultNodeTags builds from the engine's list of a live client
TagsRead(handle) ==
    [i \in 1..Len(table[handle].tags) |-> StringNew(CStr(table[handle].tags[i]))]

ConfsecClientGetDefaultNodeTags ==
    /\ Idle
    /\ \E typed \in BOOLEAN, d \in CallerNumbers :
        IF ~typed THEN TypeError("ClientGetDefaultNodeTags", "Expected handle as number")
        ELSE LET handle == FromDouble(d)
                 ok == EngineValid(handle, "client")
                 err == IF ok THEN NoErr ELSE Err(InvalidHandle)
                 defaultNodeTags == IF ok THEN [i \in 1..Len(table[handle].tags) |->
                                                  CStr(table[handle].tags[i])]
                                    ELSE <<>>
                 out == HandleError(err, Return("array", IF ok THEN TagsRead(handle) ELSE <<>>))
                 \* the list and its strings are never released
                 rel == ErrReleased(err) \cup
                        (IF err.isNull THEN {[buf |-> "tags", by |-> <<>>]} ELSE {})
             IN /\ last' = Called("ClientGetDefaultNodeTags", d, handle, err,
                                  defaultNodeTags, out, rel)
                /\ UNCHANGED <<table, dead, ubCast, data>>

ConfsecClientSetDefaultNodeTags ==
    /\ Idle
    /\ \E typed \in BOOLEAN, d \in CallerNumbers, tags \in TagArrays :
        IF ~typed THEN TypeError("ClientSetDefaultNodeTags",
                                 "Expected handle as number and tags as array")
        ELSE LET handle == FromDouble(d)
                 defaultNodeTags == JSArrayToCStringArray(tags)
                 ok == EngineValid(handle, "client")
                 err == IF ok THEN NoErr ELSE Err(InvalidHandle)
                 out == HandleError(err, Return("undefined", <<>>))
             IN /\ table' = IF ok
                            THEN [table EXCEPT ![handle].tags =
                                     [i \in 1..Len(defaultNodeTags) |->
                                         BufferCopy(defaultNodeTags[i])]]
                            ELSE table
                /\ last' = [Called("ClientSetDefaultNodeTags", d, handle, err, <<>>, out,
                                   ErrReleased(err)) EXCEPT !.jsTags = tags]
                /\ UNCHANGED <<dead, ubCast, data>>

\* Napi::String::New(env, nullptr): what the N-API library makes of a null pointer
NullStringOutcomes ==
    {Throw("TypeError", "String::New received a nullpointer as a value."),
     Throw("Error", "Invalid argument")}

ConfsecClientGetWalletStatus ==
    /\ Idle
    /\ \E typed \in BOOLEAN, d \in CallerNumbers :
        IF ~typed THEN TypeError("ClientGetWalletStatus", "Expected handle as number")
        ELSE LET handle == FromDouble(d)
                 ok == EngineValid(handle, "client")
             IN \E walletStatus \in (IF ok THEN {Ptr(CStr(b)) : b \in Payloads} ELSE {})
                                        \cup {NullPtr},
                   onNull \in NullStringOutcomes :
                  LET err == IF ok THEN NoErr ELSE Err(InvalidHandle)
                      out == HandleError(err,
                                 IF walletStatus.isNull THEN onNull
                                 ELSE Return("string", StringNew(walletStatus.mem)))
                  IN /\ last' = [Called("ClientGetWalletStatus", d, handle, err,
                                        walletStatus, out, PayloadReleased(err, walletStatus))
                                   EXCEPT !.nullConverted = err.isNull /\ walletStatus.isNull]
                     /\ UNCHANGED <<table, dead, ubCast, data>>

-----------------------------------------------------------------------------
(* Request dispatch *)

\* the request argument: a string or a Buffer
Requests ==
    {[isString |-> TRUE, text |-> t, bytes |-> <<>>] : t \in Texts} \cup
    {[isString |-> FALSE, text |-> <<>>, bytes |-> b] : b \in Payloads}

\* what a read of n bytes through a pointer into a destroyed std::string can see
DanglingRead(bytes) == {bytes, [i \in 1..Len(bytes) |-> 0]}

ConfsecClientDoRequest ==
    /\ Idle
    /\ \E typed \in BOOLEAN, d \in CallerNumbers, req \in Requests :
        IF ~typed THEN TypeError("ClientDoRequest",
                                 "Expected handle as number and request as string or buffer")
        ELSE LET handle == FromDouble(d)
                 \* requestStr lives in the if-block only; request outlives it
                 requestStr == Utf8Value(req.text)
                 payload == IF req.isString THEN requestStr ELSE req.bytes
                 requestLength == Len(payload)
                 ok == EngineValid(handle, "client")
             IN \E seen \in (IF req.isString THEN DanglingRead(requestStr) ELSE {req.bytes}),
                   responseHandle \in (IF ok THEN EngineFresh ELSE {}) \cup {Zero},
                   failed \in BOOLEAN, streaming \in BOOLEAN :
                  LET err == IF ~ok THEN Err(InvalidHandle)
                             ELSE IF responseHandle = Zero /\ failed THEN Err(RequestError)
                             ELSE NoErr
                      out == HandleError(err,
                                 CheckHandle(responseHandle, "Unexpected request failure"))
                  IN /\ table' = IF responseHandle = Zero THEN table
                                 ELSE [table EXCEPT ![responseHandle] =
                                         [NoRes EXCEPT !.kind = "response", !.live = TRUE,
                                                       !.streaming = streaming]]
                     /\ last' = [Called("ClientDoRequest", d, handle, err, responseHandle,
                                        out, ErrReleased(err))
                                   EXCEPT !.reqBytes = payload,
                                          !.engSaw = SubSeq(seen, 1, requestLength),
                                          !.reqLive = ~req.isString]
                     /\ UNCHANGED <<dead, ubCast, data>>

-----------------------------------------------------------------------------
(* Response *)

ConfsecResponseDestroy == Destroy("ResponseDestroy", "response")

\* GetMetadata and GetBody share one body
GetPayload(op, wanted, refusal, message) ==
    /\ Idle
    /\ \E typed \in BOOLEAN, d \in CallerNumbers :
        IF ~typed THEN TypeError(op, "Expected handle as number")
        ELSE LET handle == FromDouble(d)
                 ok == EngineValid(handle, "response")
                 served == ok /\ (table[handle].streaming \in wanted)
             IN \E ret \in (IF served THEN {Ptr(CStr(b)) : b \in Payloads} ELSE {})
                               \cup {NullPtr} :
                  LET err == IF ~ok THEN Err(InvalidHandle)
                             ELSE IF ~served THEN Err(refusal)
                             ELSE NoErr
                      out == HandleError(err, CopyPayload(ret, Throw("Error", message)))
                  IN /\ last' = Called(op, d, handle, err, ret, out,
                                       PayloadReleased(err, ret))
                     /\ UNCHANGED <<table, dead, ubCast, data>>

ConfsecResponseGetMetadata ==
    GetPayload("ResponseGetMetadata", BOOLEAN, NotBuffered,
               "Unexpected error getting request metadata")

ConfsecResponseGetBody ==
    GetPayload("ResponseGetBody", {FALSE}, NotBuffered,
               "Unexpected error getting request body")

ConfsecResponseIsStreaming ==
    /\ Idle
    /\ \E typed \in BOOLEAN, d \in CallerNumbers :
        IF ~typed THEN TypeError("ResponseIsStreaming", "Expected handle as number")
        ELSE LET handle == FromDouble(d)
                 ok == EngineValid(handle, "response")
                 err == IF ok THEN NoErr ELSE Err(InvalidHandle)
                 isStreaming == ok /\ table[handle].streaming
                 out == HandleError(err, Return("boolean", isStreaming))
             IN /\ last' = Called("ResponseIsStreaming", d, handle, err, isStreaming, out,
                                  ErrReleased(err))
                /\ UNCHANGED <<table, dead, ubCast, data>>

ConfsecResponseGetStream ==
    /\ Idle
    /\ \E typed \in BOOLEAN, d \in CallerNumbers :
        IF ~typed THEN TypeError("ResponseGetStream", "Expected handle as number")
        ELSE LET handle == FromDouble(d)
                 ok == EngineValid(handle, "response")
                 served == ok /\ table[handle].streaming /\ ~table[handle].taken
             IN \E streamHandle \in (IF served THEN EngineFresh ELSE {}) \cup {Zero},
                   failed \in BOOLEAN :
                  LET err == IF ~ok THEN Err(InvalidHandle)
                             ELSE IF ~served THEN Err(NotStreaming)
                             ELSE IF streamHandle = Zero /\ failed THEN Err(StreamError)
                             ELSE NoErr
                      out == HandleError(err,
                                 CheckHandle(streamHandle,
                                             "Unexpected error getting response stream"))
                  IN /\ table' = IF streamHandle = Zero THEN table
                                 ELSE [table EXCEPT ![streamHandle] =
                                           [NoRes EXCEPT !.kind = "stream", !.live = TRUE],
                                       ![handle].taken = TRUE]
                     /\ last' = Called("ResponseGetStream", d, handle, err, streamHandle,
                                       out, ErrReleased(err))
                     /\ UNCHANGED <<dead, ubCast, data>>

-----------------------------------------------------------------------------
(* Stream *)

\* the engine's answers to GetNext on a live stream: the next chunk, the end
\* (which stays), or a failure that leaves the cursor where it is
NextAnswers(s) ==
    IF s.ended THEN {[ret |-> NullPtr, err |-> NoErr]}
    ELSE {[ret |-> NullPtr, err |-> NoErr], [ret |-> NullPtr, err |-> Err(StreamError)]}
         \cup (IF s.produced < MaxChunks
               THEN {[ret |-> Ptr(CStr(b)), err |-> NoErr] : b \in Payloads}
               ELSE {})

ConfsecResponseStreamGetNext ==
    /\ Idle
    /\ \E typed \in BOOLEAN, d \in CallerNumbers :
        IF ~typed THEN TypeError("ResponseStreamGetNext", "Expected handle as number")
        ELSE LET handle == FromDouble(d)
                 ok == EngineValid(handle, "stream")
             IN \E ans \in (IF ok THEN NextAnswers(table[handle])
                            ELSE {[ret |-> NullPtr, err |-> Err(InvalidHandle)]}) :
                  LET chunk == ans.ret
                      out == HandleError(ans.err, CopyPayload(chunk, Return("null", <<>>)))
                  IN /\ table' =
                          IF ~ok \/ ~ans.err.isNull THEN table
                          ELSE [table EXCEPT
                                  ![handle].ended = @ \/ chunk.isNull,
                                  ![handle].produced = IF chunk.isNull THEN @ ELSE @ + 1,
                                  ![handle].delivered =
                                      IF out.kind = "return" /\ out.type = "buffer"
                                      THEN @ + 1 ELSE @]
                     /\ last' = Called("ResponseStreamGetNext", d, handle, ans.err, chunk,
                                       out, PayloadReleased(ans.err, chunk))
                     /\ UNCHANGED <<dead, ubCast, data>>

ConfsecResponseStreamDestroy == Destroy("ResponseStreamDestroy", "stream")

-----------------------------------------------------------------------------

Next ==
    \/ ConfsecClientCreate
    \/ ConfsecClientDestroy
    \/ ConfsecClientGetDefaultCreditAmountPerRequest
    \/ ConfsecClientGetMaxCandidateNodes
    \/ ConfsecClientGetDefaultNodeTags
    \/ ConfsecClientSetDefaultNodeTags
    \/ ConfsecClientGetWalletStatus
    \/ ConfsecClientDoRequest
    \/ ConfsecResponseDestroy
    \/ ConfsecResponseGetMetadata
    \/ ConfsecResponseIsStreaming
    \/ ConfsecResponseGetBody
    \/ ConfsecResponseGetStream
    \/ ConfsecResponseStreamGetNext
    \/ ConfsecResponseStreamDestroy
    \/ CallerResumes

Spec == Init /\ [][Next]_vars

SpecPlain == InitPlain /\ [][Next]_vars

-----------------------------------------------------------------------------
(* Vocabulary of the claims *)

CreationOps == {"ClientCreate", "ClientDoRequest", "ResponseGetStream"}

BufferOps == {"ResponseGetMetadata", "ResponseGetBody", "ResponseStreamGetNext"}

RequiredPayloadOps == {"ResponseGetMetadata", "ResponseGetBody", "ClientGetWalletStatus"}

\* the messages of the layer's own (internal) errors
UnexpectedMessages ==
    {"Unexpected error creating client", "Unexpected request failure",
     "Unexpected error getting request metadata", "Unexpected error getting request body",
     "Unexpected error getting response stream"}

InternalError(out) ==
    out.kind = "throw" /\ out.class = "Error" /\ out.message \in UnexpectedMessages

-----------------------------------------------------------------------------
\* C1: a creation-style call (ClientCreate, ClientDoRequest, ResponseGetStream)
\* to which the engine answers handle 0 with no error message fails with the
\* layer's internal error, and a creation-style call that returns a value
\* returns a non-zero number.
C1_ZeroHandleIsInternalError ==
    (last.op \in CreationOps /\ last.calls = 1) =>
        /\ (last.engErr.isNull /\ last.engRet = Zero) => InternalError(last.outcome)
        /\ last.outcome.kind = "return" =>
               (last.outcome.type = "number" /\ last.outcome.value # Zero)

C1_Witness ==
    /\ last.op = "ResponseGetStream"
    /\ last.calls = 1
    /\ last.engErr.isNull
    /\ last.engRet = Zero
    /\ EngineValid(last.passed, "response")
    /\ last.outcome.kind = "throw"

\* C2: in every boundary call, an error message set by the engine is thrown
\* as an error carrying exactly that text, no result value is returned, and
\* the engine is called once.
C2_EngineErrorSurfaced ==
    /\ last.calls <= 1
    /\ (last.calls = 1 /\ ~last.engErr.isNull) =>
           last.outcome = Throw("Error", last.engErr.text)

C2_Witness ==
    /\ last.op = "ClientGetDefaultNodeTags"
    /\ last.calls = 1
    /\ last.engErr = Err(InvalidHandle)
    /\ last.outcome.kind = "throw"

\* C3: on every stream as many chunks have been delivered as produced, each
\* GetNext that the engine answers with a chunk returns that chunk in full,
\* and each GetNext that the engine answers with the end marker returns null.
C3_StreamInOrder ==
    /\ \A v \in HandlePool :
           table[v].kind = "stream" => table[v].delivered = table[v].produced
    /\ (last.op = "ResponseStreamGetNext" /\ last.calls = 1 /\ last.engErr.isNull) =>
           IF last.engRet.isNull
           THEN last.outcome = Return("null", <<>>)
           ELSE last.outcome = Return("buffer", Payload(last.engRet))

\* C4: a call on a number for which a Destroy has returned successfully
\* fails with the engine's invalid-handle error and returns no value.
C4_DestroyedIsTerminal ==
    (last.calls = 1 /\ last.argWasDead) =>
        last.outcome = Throw("Error", InvalidHandle)

C4_Witness ==
    /\ last.op = "ResponseStreamGetNext"
    /\ last.calls = 1
    /\ last.argWasDead
    /\ last.outcome.kind = "throw"

\* C5: every buffer the engine handed over in a call is released exactly
\* once, by Confsec_Free.
C5_ReleasedByEngineOnce ==
    \A r \in last.released : r.by = <<"Confsec_Free">>

\* C6: the bytes the engine reads in DoRequest are the caller's payload, in
\* memory that is live at the call.
C6_RequestDelivered ==
    (last.op = "ClientDoRequest" /\ last.calls = 1) =>
        (last.engSaw = last.reqBytes /\ last.reqLive)

\* C7: a buffer returned by GetMetadata, GetBody or GetNext holds the
\* engine's payload in full.
C7_PayloadInFull ==
    (last.op \in BufferOps /\ last.outcome.kind = "return"
        /\ last.outcome.type = "buffer") =>
        last.outcome.value = Payload(last.engRet)

\* C8: after SetDefaultNodeTags(h, T) has returned, GetDefaultNodeTags(h)
\* yields exactly T.
C8_SetThenGet ==
    (last.op = "ClientSetDefaultNodeTags" /\ last.outcome.kind = "return") =>
        TagsRead(last.passed) = last.jsTags

\* C9: GetMetadata, GetBody and GetWalletStatus fail with the layer's
\* internal error when the engine returns null without an error, and the
\* null pointer is not handed to a conversion.
C9_NullIsInternalError ==
    (last.op \in RequiredPayloadOps /\ last.calls = 1
        /\ last.engErr.isNull /\ last.engRet.isNull) =>
        (InternalError(last.outcome) /\ ~last.nullConverted)

\* C10: the number returned by a creation-style call converts back to the
\* handle the engine issued.
C10_HandleRoundTrip ==
    (last.op \in CreationOps /\ last.outcome.kind = "return") =>
        FromDouble(last.outcome.value) = last.engRet

====
